---- MODULE Spec2Model ----
(***************************************************************************)
(* Model of the deployment orchestration of the full-stack template:      *)
(* scripts/deploy-kubernetes.sh run against a Kubernetes cluster.  The     *)
(* build script, the verification script and the user controller of the    *)
(* backend follow, each with a specification of its own.                   *)
(*                                                                         *)
(* The script is a straight-line bash program under `set -e`.  Its state   *)
(* is the position in the script (pc), the cluster calls it has made so    *)
(* far with their exit statuses, the lines it has echoed and its exit      *)
(* status.  The cluster is the environment: it accepts or rejects each     *)
(* `kubectl apply`, schedules the MongoDB pod and makes it ready on its    *)
(* own schedule.                                                           *)
(***************************************************************************)
EXTENDS Integers, Sequences, FiniteSets, TLC

\* --timeout=120s of the readiness wait
Timeout == 120

\* number of successive invocations of the script that are explored
MaxRuns == 2

\* exitCode while the script is still running
Running == -1

VARIABLES
    pc,               \* position in deploy-kubernetes.sh
    calls,            \* cluster calls started in this run, in order
    rcs,              \* exit statuses of the calls that have returned
    out,              \* lines echoed by the script in this run
    exitCode,         \* exit status of the script, Running until it exits
    waitResult,       \* how `kubectl wait` ended: none, ready, timeout, error
    elapsed,          \* seconds spent so far inside `kubectl wait`
    applied,          \* cluster: manifests that have been applied successfully
    mongoPod,         \* cluster: absent, pending or ready
    kubectlInstalled, \* environment: `command -v kubectl` succeeds
    dirExists,        \* environment: the kubernetes/ directory is there
    run,              \* number of the current invocation
    prev,             \* calls and exit status of the previous invocation
    bpc,              \* position in build-docker.sh
    builds,           \* docker build invocations of this run, in order
    brcs,             \* their exit statuses
    bout,             \* lines printed by build-docker.sh in this run
    bexit,            \* exit status of build-docker.sh, Running until it exits
    brun,             \* number of the current invocation of build-docker.sh
    images,           \* docker: tags in the local image store
    registry,         \* tags pushed to a registry
    clusterImages,    \* tags loaded into the cluster's nodes
    dockerInstalled,  \* host: `command -v docker` succeeds
    daemonRunning,    \* host: the docker daemon answers
    dockerObjects,    \* docker: kinds of project objects that exist
    clusterReachable, \* host: the cluster answers kubectl cluster-info
    vpc,              \* position in check-docker-k8s.sh
    vout,             \* result lines printed by check-docker-k8s.sh
    vexit,            \* its exit status, Running until it exits
    secretValue,      \* SECRET_KEY as written in secret.yaml
    storedSecret,     \* cluster: SECRET_KEY held by app-secrets, none before
    users,            \* the Users collection, in insertion order
    pending,          \* requests of the user controller suspended at an await
    resp,             \* the response the user controller sent last
    uniqueIndex       \* the Users collection rejects a second document per e-mail

vars == <<pc, calls, rcs, out, exitCode, waitResult, elapsed, applied,
          mongoPod, kubectlInstalled, dirExists, run, prev,
          bpc, builds, brcs, bout, bexit, brun, images, registry, clusterImages,
          dockerInstalled, daemonRunning, dockerObjects, clusterReachable,
          vpc, vout, vexit, secretValue, storedSecret,
          users, pending, resp, uniqueIndex>>

orch == <<pc, calls, rcs, out, exitCode, waitResult, elapsed>>
cluster == <<applied, mongoPod, storedSecret>>
env == <<kubectlInstalled, dirExists, secretValue>>
hist == <<run, prev>>

\* state of build-docker.sh and of what docker keeps for it
build == <<bpc, builds, brcs, bout, bexit, brun, images, registry, clusterImages>>

\* the docker installation of the host
host == <<dockerInstalled, daemonRunning, dockerObjects, clusterReachable>>

\* state of check-docker-k8s.sh
verify == <<vpc, vout, vexit>>

\* state of the user controller and of its collection
controller == <<users, pending, resp, uniqueIndex>>

\* state of the programs other than deploy-kubernetes.sh
others == <<build, host, verify, controller>>

\* state of deploy-kubernetes.sh, its cluster and its environment
deploy == <<orch, cluster, env, hist>>

\* number of requests the user controller has suspended at the same time
MaxInFlight == 2

\* the places for suspended requests
Slots == 1..MaxInFlight

\* a place that holds no request
Free == [pc |-> "free"]

\* before the first response
NoResponse == [op |-> "none", status |-> 0, body |-> [none |-> TRUE]]

\* values SECRET_KEY may have: the one committed in secret.yaml and a
\* production one
SecretValues == {"secret-key-dev", "your-production-secret"}

\* the seven manifests the script applies
Manifests ==
    {"namespace", "secret", "configmap", "mongodb", "backend", "frontend", "ingress"}

\* the cluster calls of the script in textual order
Script ==
    <<"namespace", "secret", "configmap", "mongodb", "wait", "backend", "frontend", "ingress">>

IndexOf(s) == CHOOSE i \in 1..Len(Script) : Script[i] = s

\* a script in which the backend is deployed before MongoDB and the wait
NextStepBackendFirst(s) ==
    CASE s = "configmap" -> "backend"
      [] s = "backend" -> "mongodb"
      [] s = "wait" -> "frontend"
      [] s = "ingress" -> "complete"
      [] OTHER -> Script[IndexOf(s) + 1]

\* a script that forgets frontend-deployment.yaml
NextStepNoFrontend(s) ==
    CASE s = "backend" -> "ingress"
      [] s = "ingress" -> "complete"
      [] OTHER -> Script[IndexOf(s) + 1]

\* a script that ends in a running `kubectl port-forward` instead of a hint
NextStepPortForward(s) ==
    IF IndexOf(s) = Len(Script) THEN "port-forward" ELSE Script[IndexOf(s) + 1]

\* a script that runs kubectl wait in a polling loop
NextStepPollAgain(s) ==
    CASE s = "wait" -> "wait"
      [] s = "ingress" -> "complete"
      [] OTHER -> Script[IndexOf(s) + 1]

\* the command that follows step s in the script
NextStep(s) ==
    IF IndexOf(s) = Len(Script) THEN "complete" ELSE Script[IndexOf(s) + 1]

\* a script that echoes the secret it is about to apply
AnnounceSecretValue(s) ==
    IF s = "secret" THEN secretValue ELSE "Step " \o s

\* the line echoed before the command of step s
Announce(s) ==
    CASE s = "namespace" -> "Creating namespace..."
      [] s = "secret" -> "Creating secrets..."
      [] s = "configmap" -> "Creating configmap..."
      [] s = "mongodb" -> "Deploying MongoDB..."
      [] s = "wait" -> "Waiting for MongoDB to be ready..."
      [] s = "backend" -> "Deploying backend..."
      [] s = "frontend" -> "Deploying frontend..."
      [] s = "ingress" -> "Deploying ingress (if available)..."

\* a script without `set -e`
FatalNowhere(s) == FALSE

\* a script that switches errexit off (set +e) once the database is deployed
FatalTierOnly(s) == s \in {"namespace", "secret", "configmap", "mongodb"}

\* a script whose wait has no `|| true`
FatalWait(s) == s # "ingress"

\* a script whose ingress apply has no `|| echo ...`
FatalIngress(s) == s # "wait"

\* set -e: a failing command ends the script unless it is the left side of ||
Fatal(s) == s \notin {"wait", "ingress"}

\* a script that echoes a warning after a failed wait as well
FailureOutputWaitToo(s) ==
    CASE s = "ingress" -> <<"Ingress not applied (may need ingress controller)">>
      [] s = "wait" -> <<"MongoDB not ready">>
      [] OTHER -> <<>>

\* what the right side of || prints when the command of step s fails
FailureOutput(s) ==
    IF s = "ingress"
    THEN <<"Ingress not applied (may need ingress controller)">>
    ELSE <<>>

\* a script that never looks for kubectl
KubectlMissingUnchecked(installed) == FALSE

\* if ! command -v kubectl
KubectlMissing(installed) == ~installed

\* `kubectl create`: a resource that already exists is rejected
OutcomesCreate(m, done) == IF m \in done THEN {1} ELSE {0, 1}

\* exit statuses `kubectl apply -f m` can return: the cluster accepts or
\* rejects a new resource; re-applying an applied one is a no-op update
Outcomes(m, done) == IF m \in done THEN {0} ELSE {0, 1}

\* a wait that gives up one second early
WaitExpiredEarly(t) == t >= Timeout - 1

\* --timeout=120s
WaitExpired(t) == t >= Timeout

\* a wait started in the background with &
PcWhileWaitingBackground == NextStep("wait")

\* the script blocks inside kubectl wait
PcWhileWaiting == "waiting"

Init ==
    /\ pc = "idle"
    /\ calls = <<>>
    /\ rcs = <<>>
    /\ out = <<>>
    /\ exitCode = Running
    /\ waitResult = "none"
    /\ elapsed = 0
    /\ applied = {}
    /\ mongoPod = "absent"
    /\ kubectlInstalled \in BOOLEAN
    /\ dirExists \in BOOLEAN
    /\ run = 1
    /\ prev = [calls |-> <<>>, exitCode |-> Running]
    /\ bpc = "idle"
    /\ builds = <<>>
    /\ brcs = <<>>
    /\ bout = <<>>
    /\ bexit = Running
    /\ brun = 1
    /\ images = {}
    /\ registry = {}
    /\ clusterImages = {}
    /\ dockerInstalled = TRUE
    /\ daemonRunning = TRUE
    /\ dockerObjects = {}
    /\ clusterReachable = TRUE
    /\ vpc = "idle"
    /\ vout = <<>>
    /\ vexit = Running
    /\ secretValue \in SecretValues
    /\ storedSecret = IF "secret" \in applied THEN secretValue ELSE "none"
    /\ users = <<>>
    /\ pending = [r \in Slots |-> Free]
    /\ resp = NoResponse
    /\ uniqueIndex = FALSE

\* line 8
Start ==
    /\ pc = "idle"
    /\ pc' = "precheck"
    /\ out' = Append(out, "Starting Kubernetes Deployment...")
    /\ UNCHANGED <<calls, rcs, exitCode, waitResult, elapsed, cluster, env, hist, others>>

\* lines 10-14
Precheck ==
    /\ pc = "precheck"
    /\ IF KubectlMissing(kubectlInstalled)
       THEN /\ out' = Append(out, "kubectl is not installed. Please install kubectl first.")
            /\ pc' = "exited"
            /\ exitCode' = 1
       ELSE /\ pc' = "cd"
            /\ UNCHANGED <<out, exitCode>>
    /\ UNCHANGED <<calls, rcs, waitResult, elapsed, cluster, env, hist, others>>

\* line 17, under set -e
ChangeDir ==
    /\ pc = "cd"
    /\ IF dirExists
       THEN pc' = Script[1] /\ UNCHANGED exitCode
       ELSE pc' = "exited" /\ exitCode' = 1
    /\ UNCHANGED <<calls, rcs, out, waitResult, elapsed, cluster, env, hist, others>>

\* lines 20-30 and 35-42: echo, then kubectl apply -f <m>.yaml
Apply(m) ==
    /\ pc = m
    /\ \E rc \in Outcomes(m, applied) :
        /\ calls' = Append(calls, m)
        /\ rcs' = Append(rcs, rc)
        /\ applied' = IF rc = 0 THEN applied \cup {m} ELSE applied
        /\ storedSecret' = IF rc = 0 /\ m = "secret" THEN secretValue ELSE storedSecret
        /\ IF rc = 0
           THEN /\ out' = Append(out, Announce(m))
                /\ pc' = NextStep(m)
                /\ UNCHANGED exitCode
           ELSE IF Fatal(m)
           THEN /\ out' = Append(out, Announce(m))
                /\ pc' = "exited"
                /\ exitCode' = rc
           ELSE /\ out' = Append(out, Announce(m)) \o FailureOutput(m)
                /\ pc' = NextStep(m)
                /\ UNCHANGED exitCode
    /\ UNCHANGED <<waitResult, elapsed, mongoPod, env, hist, others>>

\* kubectl wait returns with status rc; `|| true` decides what follows
WaitReturn(rc, how, sofar) ==
    /\ rcs' = Append(rcs, rc)
    /\ waitResult' = how
    /\ IF rc = 0
       THEN /\ out' = sofar
            /\ pc' = NextStep("wait")
            /\ UNCHANGED exitCode
       ELSE IF Fatal("wait")
       THEN /\ out' = sofar
            /\ pc' = "exited"
            /\ exitCode' = rc
       ELSE /\ out' = sofar \o FailureOutput("wait")
            /\ pc' = NextStep("wait")
            /\ UNCHANGED exitCode

\* lines 32-33: echo, then kubectl wait looks up the pods labelled app=mongodb;
\* with no such pod it fails at once, otherwise it starts watching
WaitStart ==
    /\ pc = "wait"
    /\ calls' = Append(calls, "wait")
    /\ elapsed' = 0
    /\ IF mongoPod = "absent"
       THEN WaitReturn(1, "error", Append(out, Announce("wait")))
       ELSE /\ out' = Append(out, Announce("wait"))
            /\ pc' = PcWhileWaiting
            /\ UNCHANGED <<rcs, waitResult, exitCode>>
    /\ UNCHANGED <<cluster, env, hist, others>>

\* line 33: one second passes inside kubectl wait
WaitTick ==
    /\ pc = "waiting"
    /\ mongoPod # "ready"
    /\ ~WaitExpired(elapsed)
    /\ elapsed' = elapsed + 1
    /\ UNCHANGED <<pc, calls, rcs, out, exitCode, waitResult, cluster, env, hist, others>>

\* line 33: the pod has condition ready, kubectl wait exits 0
WaitReady ==
    /\ pc = "waiting"
    /\ mongoPod = "ready"
    /\ WaitReturn(0, "ready", out)
    /\ UNCHANGED <<calls, elapsed, cluster, env, hist, others>>

\* line 33: the timeout has elapsed, kubectl wait exits 1
WaitTimeout ==
    /\ pc = "waiting"
    /\ mongoPod # "ready"
    /\ WaitExpired(elapsed)
    /\ WaitReturn(1, "timeout", out)
    /\ UNCHANGED <<calls, elapsed, cluster, env, hist, others>>

\* lines 44-57: the completion message and the hints; the script ends
Finish ==
    /\ pc = "complete"
    /\ out' = Append(out, "Deployment complete!")
    /\ pc' = "exited"
    /\ exitCode' = 0
    /\ UNCHANGED <<calls, rcs, waitResult, elapsed, cluster, env, hist, others>>

\* the operator invokes the script again; nothing of the old process is kept
Rerun ==
    /\ pc = "exited"
    /\ run < MaxRuns
    /\ run' = run + 1
    /\ prev' = [calls |-> calls, exitCode |-> exitCode]
    /\ pc' = "idle"
    /\ calls' = <<>>
    /\ rcs' = <<>>
    /\ out' = <<>>
    /\ exitCode' = Running
    /\ waitResult' = "none"
    /\ elapsed' = 0
    /\ UNCHANGED <<cluster, env, others>>

\* cluster: the deployment controller creates the MongoDB pod
PodScheduled ==
    /\ "mongodb" \in applied
    /\ mongoPod = "absent"
    /\ mongoPod' = "pending"
    /\ UNCHANGED <<orch, applied, storedSecret, env, hist, others>>

\* cluster: the MongoDB pod passes its readiness probe
PodReady ==
    /\ mongoPod = "pending"
    /\ mongoPod' = "ready"
    /\ UNCHANGED <<orch, applied, storedSecret, env, hist, others>>

Next ==
    \/ Start
    \/ Precheck
    \/ ChangeDir
    \/ \E m \in Manifests : Apply(m)
    \/ WaitStart
    \/ WaitTick
    \/ WaitReady
    \/ WaitTimeout
    \/ Finish
    \/ Rerun
    \/ PodScheduled
    \/ PodReady

Spec == Init /\ [][Next]_vars

\* the commands of the script: bash runs the next one as soon as the last
\* one has returned, and a second passes while kubectl wait is watching
ScriptStep ==
    \/ Start
    \/ Precheck
    \/ ChangeDir
    \/ \E m \in Manifests : Apply(m)
    \/ WaitStart
    \/ WaitTick
    \/ WaitReady
    \/ WaitTimeout
    \/ Finish

\* every cluster call returns and the script is not suspended; nothing is
\* assumed about the cluster's pods or about the operator
FairSpec == Spec /\ WF_vars(ScriptStep)

\* terminal states of a run
Complete == pc = "exited" /\ exitCode = 0
Aborted == pc = "exited" /\ exitCode # 0 /\ exitCode # Running

(***************************************************************************)
(* scripts/build-docker.sh: two docker builds under `set -e`, a listing    *)
(* of the project's images and hints for the operator.                     *)
(***************************************************************************)

\* the ServiceUnits that have an image of their own
BuildUnits == {"backend", "frontend"}

\* docker build -t <tag>
Tag(u) ==
    IF u = "backend" THEN "fullstack-app-backend:latest" ELSE "fullstack-app-frontend:latest"

\* images the local store may hold
AllImages == {Tag("backend"), Tag("frontend"), "mongo:latest"}

\* the commands of build-docker.sh in textual order
BuildScript == <<"backend", "frontend", "complete", "list", "hints">>

BuildIndexOf(s) == CHOOSE i \in 1..Len(BuildScript) : BuildScript[i] = s

\* the command that follows step s in build-docker.sh
BuildNextStep(s) ==
    IF BuildIndexOf(s) = Len(BuildScript) THEN "exited" ELSE BuildScript[BuildIndexOf(s) + 1]

\* a build script without `set -e`
BuildFatalNowhere(s) == FALSE

\* set -e: no command of build-docker.sh is the left side of ||
BuildFatal(s) == TRUE

\* a build followed by docker push
PushedAfterBuild(u) == {Tag(u)}

\* tags the script pushes to a registry after building unit u
Pushed(u) == {}

\* grep fullstack_app: a pattern none of the two tags contains
GrepFullstackUnderscore(store) == {t \in store : t = "fullstack_app:latest"}

\* grep fullstack-app
GrepFullstack(store) == {t \in store : \E u \in BuildUnits : t = Tag(u)}

\* the lines docker images | grep fullstack-app prints
ListingLines(store) ==
    SelectSeq(<<Tag("backend"), Tag("frontend")>>, LAMBDA t : t \in GrepFullstack(store))

\* exit statuses of docker build: 127 without the docker command, 1 without
\* the daemon or when the source tree does not build, 0 otherwise
BuildOutcomes(installed, running) ==
    IF ~installed THEN {127} ELSE IF ~running THEN {1} ELSE {0, 1}

\* images the hints load into the cluster: the commands are only echoed
HintsLoad(store) == {}

BuildInit ==
    /\ pc = "idle"
    /\ calls = <<>>
    /\ rcs = <<>>
    /\ out = <<>>
    /\ exitCode = Running
    /\ waitResult = "none"
    /\ elapsed = 0
    /\ applied = {}
    /\ mongoPod = "absent"
    /\ kubectlInstalled = TRUE
    /\ dirExists = TRUE
    /\ run = 1
    /\ prev = [calls |-> <<>>, exitCode |-> Running]
    /\ bpc = "idle"
    /\ builds = <<>>
    /\ brcs = <<>>
    /\ bout = <<>>
    /\ bexit = Running
    /\ brun = 1
    /\ images \in SUBSET AllImages
    /\ registry = {}
    /\ clusterImages = {}
    /\ dockerInstalled \in BOOLEAN
    /\ daemonRunning \in BOOLEAN
    /\ dockerObjects = {}
    /\ clusterReachable = TRUE
    /\ vpc = "idle"
    /\ vout = <<>>
    /\ vexit = Running
    /\ secretValue = "secret-key-dev"
    /\ storedSecret = IF "secret" \in applied THEN secretValue ELSE "none"
    /\ users = <<>>
    /\ pending = [r \in Slots |-> Free]
    /\ resp = NoResponse
    /\ uniqueIndex = FALSE

\* line 68
BuildStart ==
    /\ bpc = "idle"
    /\ bpc' = BuildScript[1]
    /\ bout' = Append(bout, "Building Docker Images...")
    /\ UNCHANGED <<builds, brcs, bexit, brun, images, registry, clusterImages, deploy, host, verify, controller>>

\* lines 70-72 and 74-78: echo, then docker build -t <tag> ./<u>
Build(u) ==
    /\ bpc = u
    /\ bout' = Append(bout, "Building " \o u \o " image...")
    /\ builds' = Append(builds, u)
    /\ \E rc \in BuildOutcomes(dockerInstalled, daemonRunning) :
        /\ brcs' = Append(brcs, rc)
        /\ IF rc = 0
           THEN /\ images' = images \cup {Tag(u)}
                /\ registry' = registry \cup Pushed(u)
                /\ bpc' = BuildNextStep(u)
                /\ UNCHANGED bexit
           ELSE IF BuildFatal(u)
           THEN /\ bpc' = "exited"
                /\ bexit' = rc
                /\ UNCHANGED <<images, registry>>
           ELSE /\ bpc' = BuildNextStep(u)
                /\ UNCHANGED <<bexit, images, registry>>
    /\ UNCHANGED <<brun, clusterImages, deploy, host, verify, controller>>

\* lines 80-83
BuildComplete ==
    /\ bpc = "complete"
    /\ bout' = bout \o <<"Build complete!", "Available images:">>
    /\ bpc' = BuildNextStep("complete")
    /\ UNCHANGED <<builds, brcs, bexit, brun, images, registry, clusterImages, deploy, host, verify, controller>>

\* line 84: docker images | grep fullstack-app; the status of the pipeline
\* is that of grep, 1 when no line matches
ListImages ==
    /\ bpc = "list"
    /\ bout' = bout \o ListingLines(images)
    /\ IF GrepFullstack(images) # {} \/ ~BuildFatal("list")
       THEN bpc' = BuildNextStep("list") /\ UNCHANGED bexit
       ELSE bpc' = "exited" /\ bexit' = 1
    /\ UNCHANGED <<builds, brcs, brun, images, registry, clusterImages, deploy, host, verify, controller>>

\* lines 86-96: the hints are echoed; the script ends
BuildHints ==
    /\ bpc = "hints"
    /\ bout' = bout \o <<"To start with docker-compose:",
                         "To load images into minikube:",
                         "To load images into kind:">>
    /\ clusterImages' = clusterImages \cup HintsLoad(images)
    /\ bpc' = BuildNextStep("hints")
    /\ bexit' = 0
    /\ UNCHANGED <<builds, brcs, brun, images, registry, deploy, host, verify, controller>>

\* the operator invokes build-docker.sh again; the image store is kept
BuildRerun ==
    /\ bpc = "exited"
    /\ brun < MaxRuns
    /\ brun' = brun + 1
    /\ bpc' = "idle"
    /\ builds' = <<>>
    /\ brcs' = <<>>
    /\ bout' = <<>>
    /\ bexit' = Running
    /\ UNCHANGED <<images, registry, clusterImages, deploy, host, verify, controller>>

BuildNext ==
    \/ BuildStart
    \/ \E u \in BuildUnits : Build(u)
    \/ BuildComplete
    \/ ListImages
    \/ BuildHints
    \/ BuildRerun

BuildSpec == BuildInit /\ [][BuildNext]_vars

(***************************************************************************)
(* scripts/check-docker-k8s.sh: a sequence of checks of the docker host,   *)
(* the cluster and the project files.  The script has no `set -e`; every   *)
(* check prints its result and the next check follows.                     *)
(***************************************************************************)

\* kinds of docker objects docker-compose creates for the project
DockerKinds == {"container", "volume", "network"}

\* the files section 8 looks for
ProjectFiles == {"docker-compose.yml", "backend/Dockerfile", "frontend/Dockerfile"}

\* the checks of check-docker-k8s.sh in textual order
VerifyScript ==
    <<"docker", "compose", "daemon", "containers", "images", "volumes", "networks",
      "kubectl", "cluster", "context", "local", "summary", "files", "complete">>

VerifyIndexOf(s) == CHOOSE i \in 1..Len(VerifyScript) : VerifyScript[i] = s

\* the check that follows check s
VerifyNextStep(s) ==
    IF VerifyIndexOf(s) = Len(VerifyScript) THEN "exited" ELSE VerifyScript[VerifyIndexOf(s) + 1]

\* a result line: the check and the mark printed for it
Line(check, level) == [check |-> check, level |-> level]

\* a script that gives up when kubectl is missing as well
ExitWhenMissingAny(tool) == TRUE

\* a script that only reports a missing docker command
ExitWhenMissingNone(tool) == FALSE

\* the tools whose absence ends the script: `exit 1` stands in the docker
\* branch only (line 26)
ExitWhenMissing(tool) == tool = "docker"

\* a script that applies namespace.yaml when the namespace is missing
NamespaceCreatedIfMissing(exists) == IF exists THEN {} ELSE {"namespace"}

\* what the script creates in the cluster after looking for the namespace:
\* the kubectl apply command is only printed (line 158)
NamespaceCreated(exists) == {}

\* docker info succeeds
DockerUp == dockerInstalled /\ daemonRunning

\* kubectl cluster-info succeeds
ClusterUp == kubectlInstalled /\ clusterReachable

\* grep -E "fullstack|mongo" over the image store docker can list
GrepProject(store) ==
    IF DockerUp
    THEN GrepFullstack(store) \cup {t \in store : t = "mongo:latest"}
    ELSE {}

\* ✓ or ⚠
PassOrWarn(ok) == IF ok THEN "pass" ELSE "warn"

\* ✓ or ✗
PassOrFail(ok) == IF ok THEN "pass" ELSE "fail"

VerifyInit ==
    /\ pc = "idle"
    /\ calls = <<>>
    /\ rcs = <<>>
    /\ out = <<>>
    /\ exitCode = Running
    /\ waitResult = "none"
    /\ elapsed = 0
    /\ applied \in {{}, {"namespace"}, Manifests}
    /\ mongoPod = "absent"
    /\ kubectlInstalled \in BOOLEAN
    /\ dirExists \in BOOLEAN
    /\ run = 1
    /\ prev = [calls |-> <<>>, exitCode |-> Running]
    /\ bpc = "idle"
    /\ builds = <<>>
    /\ brcs = <<>>
    /\ bout = <<>>
    /\ bexit = Running
    /\ brun = 1
    /\ images \in SUBSET AllImages
    /\ registry = {}
    /\ clusterImages = {}
    /\ dockerInstalled \in BOOLEAN
    /\ daemonRunning \in BOOLEAN
    /\ dockerObjects \in {{}, DockerKinds}
    /\ clusterReachable \in BOOLEAN
    /\ vpc = "idle"
    /\ vout = <<>>
    /\ vexit = Running
    /\ secretValue = "secret-key-dev"
    /\ storedSecret = IF "secret" \in applied THEN secretValue ELSE "none"
    /\ users = <<>>
    /\ pending = [r \in Slots |-> Free]
    /\ resp = NoResponse
    /\ uniqueIndex = FALSE

\* what no check of the script touches
VerifyFrame == UNCHANGED <<orch, mongoPod, storedSecret, env, hist, build, host, controller>>

\* lines 5-8: the banner
VerifyStart ==
    /\ vpc = "idle"
    /\ vpc' = VerifyScript[1]
    /\ UNCHANGED <<vout, vexit, applied>>
    /\ VerifyFrame

\* a check that prints one result line and goes on
Report(check, level) ==
    /\ vpc = check
    /\ vout' = Append(vout, Line(check, level))
    /\ vpc' = VerifyNextStep(check)
    /\ UNCHANGED <<vexit, applied>>
    /\ VerifyFrame

\* lines 16-27: command -v docker, exit 1 without it
CheckDocker ==
    /\ vpc = "docker"
    /\ vout' = Append(vout, Line("docker", PassOrFail(dockerInstalled)))
    /\ IF ~dockerInstalled /\ ExitWhenMissing("docker")
       THEN vpc' = "exited" /\ vexit' = 1
       ELSE vpc' = VerifyNextStep("docker") /\ UNCHANGED vexit
    /\ UNCHANGED applied
    /\ VerifyFrame

\* lines 29-37: docker compose version || command -v docker-compose
CheckCompose ==
    /\ vpc = "compose"
    /\ \E available \in BOOLEAN : Report("compose", PassOrFail(available))

\* lines 39-47: docker info
CheckDaemon ==
    /\ vpc = "daemon"
    /\ Report("daemon", PassOrFail(DockerUp))

\* lines 49-64: docker ps -a
CheckContainers ==
    /\ vpc = "containers"
    /\ Report("containers", PassOrWarn(DockerUp /\ "container" \in dockerObjects))

\* lines 66-92: docker images | grep -E "fullstack|mongo", then one line for
\* the backend image and one for the frontend image
CheckImages ==
    /\ vpc = "images"
    /\ vout' = IF GrepProject(images) # {}
               THEN vout \o <<Line("backend image", PassOrWarn(Tag("backend") \in images)),
                              Line("frontend image", PassOrWarn(Tag("frontend") \in images))>>
               ELSE Append(vout, Line("images", "warn"))
    /\ vpc' = VerifyNextStep("images")
    /\ UNCHANGED <<vexit, applied>>
    /\ VerifyFrame

\* lines 94-106: docker volume ls
CheckVolumes ==
    /\ vpc = "volumes"
    /\ Report("volumes", PassOrWarn(DockerUp /\ "volume" \in dockerObjects))

\* lines 108-120: docker network ls
CheckNetworks ==
    /\ vpc = "networks"
    /\ Report("networks", PassOrWarn(DockerUp /\ "network" \in dockerObjects))

\* lines 122-134: command -v kubectl; a missing kubectl is only reported
CheckKubectl ==
    /\ vpc = "kubectl"
    /\ vout' = Append(vout, Line("kubectl", PassOrFail(kubectlInstalled)))
    /\ IF ~kubectlInstalled /\ ExitWhenMissing("kubectl")
       THEN vpc' = "exited" /\ vexit' = 1
       ELSE vpc' = VerifyNextStep("kubectl") /\ UNCHANGED vexit
    /\ UNCHANGED applied
    /\ VerifyFrame

\* lines 136-167: kubectl cluster-info, then get nodes and get namespace
CheckCluster ==
    /\ vpc = "cluster"
    /\ IF ClusterUp
       THEN /\ vout' = vout \o <<Line("cluster", "pass"),
                                 Line("namespace", PassOrWarn("namespace" \in applied))>>
            /\ applied' = applied \cup NamespaceCreated("namespace" \in applied)
       ELSE /\ vout' = Append(vout, Line("cluster", "fail"))
            /\ UNCHANGED applied
    /\ vpc' = VerifyNextStep("cluster")
    /\ UNCHANGED vexit
    /\ VerifyFrame

\* lines 169-174: kubectl config current-context, when kubectl is there
CheckContext ==
    /\ vpc = "context"
    /\ vout' = IF kubectlInstalled THEN Append(vout, Line("context", "info")) ELSE vout
    /\ vpc' = VerifyNextStep("context")
    /\ UNCHANGED <<vexit, applied>>
    /\ VerifyFrame

\* lines 176-206: minikube and kind, each absent, idle or in use
CheckLocal ==
    /\ vpc = "local"
    /\ \E minikube, kind \in {"absent", "idle", "up"} :
        vout' = vout \o <<Line("minikube", PassOrWarn(minikube # "absent")),
                          Line("minikube status", PassOrWarn(minikube = "up")),
                          Line("kind", PassOrWarn(kind # "absent")),
                          Line("kind clusters", PassOrWarn(kind = "up"))>>
    /\ vpc' = VerifyNextStep("local")
    /\ UNCHANGED <<vexit, applied>>
    /\ VerifyFrame

\* lines 208-226: the summary repeats docker info and kubectl cluster-info
Summary ==
    /\ vpc = "summary"
    /\ vout' = vout \o <<Line("Docker", PassOrFail(DockerUp)),
                         Line("Kubernetes", PassOrWarn(ClusterUp))>>
    /\ vpc' = VerifyNextStep("summary")
    /\ UNCHANGED <<vexit, applied>>
    /\ VerifyFrame

\* lines 228-260: cd to the project root, the parent of the directory the
\* script was started from, then one test per file and one for kubernetes/
CheckFiles ==
    /\ vpc = "files"
    /\ \E present \in SUBSET ProjectFiles :
        vout' = vout \o <<Line("docker-compose.yml", PassOrFail("docker-compose.yml" \in present)),
                          Line("backend/Dockerfile", PassOrFail("backend/Dockerfile" \in present)),
                          Line("frontend/Dockerfile", PassOrFail("frontend/Dockerfile" \in present)),
                          Line("kubernetes/", PassOrFail(dirExists))>>
    /\ vpc' = VerifyNextStep("files")
    /\ UNCHANGED <<vexit, applied>>
    /\ VerifyFrame

\* lines 262-265: the last echo gives the script its exit status
VerifyFinish ==
    /\ vpc = "complete"
    /\ vout' = Append(vout, Line("Verification Complete!", "pass"))
    /\ vpc' = VerifyNextStep("complete")
    /\ vexit' = 0
    /\ UNCHANGED applied
    /\ VerifyFrame

VerifyNext ==
    \/ VerifyStart
    \/ CheckDocker
    \/ CheckCompose
    \/ CheckDaemon
    \/ CheckContainers
    \/ CheckImages
    \/ CheckVolumes
    \/ CheckNetworks
    \/ CheckKubectl
    \/ CheckCluster
    \/ CheckContext
    \/ CheckLocal
    \/ Summary
    \/ CheckFiles
    \/ VerifyFinish

VerifySpec == VerifyInit /\ [][VerifyNext]_vars

(***************************************************************************)
(* backend/app/controllers/user.controller.js: six request handlers over   *)
(* the Users collection.  A handler runs alone up to an await; what the    *)
(* handlers share is the collection, so each action below is one access    *)
(* to the collection together with the handler's own code before and       *)
(* after it.  create and updateAUser access the collection twice and are   *)
(* suspended in between, where other requests run.                         *)
(***************************************************************************)

\* number of documents the collection holds at most
MaxUsers == 2

Emails == {"ann@example.com", "bob@example.com"}

Passwords == {"pw1", "pw2"}

\* the names and the password a person registers or edits with
Profiles ==
    {[firstName |-> "Ann", lastName |-> "Lee", password |-> "pw1"],
     [firstName |-> "Bob", lastName |-> "Kim", password |-> "pw2"]}

\* bcrypt.hash(password, BCRYPT_WORK_FACTOR): a digest that is not the password
Hash(password) == "$2b$" \o password

\* a comparison whose promise is tested instead of its value
CompareNotAwaited(password, hashed) == TRUE

\* bcrypt.compare(password, user.password)
Compare(password, hashed) == hashed = Hash(password)

\* createToken(user): a signed string; its content is made by helpers/token
createToken(user) == "jwt"

\* jsonschema.validate(req.body, schema).valid
Valid(body) == body.valid

\* a body the schema rejects
InvalidBody ==
    [valid |-> FALSE, email |-> "-", password |-> "-", firstName |-> "-",
     lastName |-> "-", isAdmin |-> FALSE]

\* req.body of a registration or an edit: the fields the schema asks for and,
\* possibly, isAdmin: true
ProfileBodies ==
    {[valid |-> TRUE, email |-> e, password |-> p.password, firstName |-> p.firstName,
      lastName |-> p.lastName, isAdmin |-> a] : e \in Emails, p \in Profiles, a \in BOOLEAN}
        \cup {InvalidBody}

\* req.body of an authentication
AuthBodies ==
    [valid : {TRUE}, email : Emails, password : Passwords, firstName : {"-"},
     lastName : {"-"}, isAdmin : {FALSE}] \cup {InvalidBody}

\* an administrator, entered into the collection by hand
Admin ==
    [firstName |-> "Ann", lastName |-> "Lee", email |-> "ann@example.com",
     password |-> Hash("pw1"), isAdmin |-> TRUE]

\* Users.findOne({ email }): the position of the first match, 0 for null
FindIndex(store, email) ==
    IF \E i \in 1..Len(store) : store[i].email = email
    THEN CHOOSE i \in 1..Len(store) :
             /\ store[i].email = email
             /\ \A j \in 1..(i - 1) : store[j].email # email
    ELSE 0

\* new Users({...}), lines 33-39
NewUser(body, hashedPassword) ==
    [firstName |-> body.firstName, lastName |-> body.lastName, email |-> body.email,
     password |-> hashedPassword, isAdmin |-> FALSE]

\* an edit that passes the whole body to updateOne
UpdateDocWholeBody(body, hashedPassword) ==
    [firstName |-> body.firstName, lastName |-> body.lastName,
     password |-> hashedPassword, isAdmin |-> body.isAdmin]

\* the second argument of Users.updateOne, lines 119-123
UpdateDoc(body, hashedPassword) ==
    [firstName |-> body.firstName, lastName |-> body.lastName, password |-> hashedPassword]

\* updateOne sets the fields of the update document and keeps the others
ApplyUpdate(user, doc) ==
    [f \in DOMAIN user |-> IF f \in DOMAIN doc THEN doc[f] ELSE user[f]]

\* a handler that forgets delete userObj.password
WithPassword(user) == user

\* user.toObject() followed by delete userObj.password
WithoutPassword(user) == [f \in DOMAIN user \ {"password"} |-> user[f]]

\* deleteOne removes the first match
Remove(store, i) == SubSeq(store, 1, i - 1) \o SubSeq(store, i + 1, Len(store))

\* what the handler was asked, as far as its answer depends on it
Req(email, password, valid) == [email |-> email, password |-> password, valid |-> valid]

\* res.status(status).send(body) or res.json(body)
Send(op, req, status, body) == [op |-> op, req |-> req, status |-> status, body |-> body]

\* next(err): the error handler answers with the status of the error
Fail(op, req, status, error) ==
    [op |-> op, req |-> req, status |-> status, body |-> [error |-> error]]

\* a new request takes the first place that holds none
Takes(r) == pending[r] = Free /\ \A q \in 1..(r - 1) : pending[q] # Free

\* requests suspended before their save
Saving == {r \in Slots : pending[r].pc = "save"}

ControllerFrame == UNCHANGED <<deploy, build, host, verify, uniqueIndex>>

ControllerInit ==
    /\ pc = "idle"
    /\ calls = <<>>
    /\ rcs = <<>>
    /\ out = <<>>
    /\ exitCode = Running
    /\ waitResult = "none"
    /\ elapsed = 0
    /\ applied = {}
    /\ mongoPod = "absent"
    /\ kubectlInstalled = TRUE
    /\ dirExists = TRUE
    /\ run = 1
    /\ prev = [calls |-> <<>>, exitCode |-> Running]
    /\ bpc = "idle"
    /\ builds = <<>>
    /\ brcs = <<>>
    /\ bout = <<>>
    /\ bexit = Running
    /\ brun = 1
    /\ images = {}
    /\ registry = {}
    /\ clusterImages = {}
    /\ dockerInstalled = TRUE
    /\ daemonRunning = TRUE
    /\ dockerObjects = {}
    /\ clusterReachable = TRUE
    /\ vpc = "idle"
    /\ vout = <<>>
    /\ vexit = Running
    /\ secretValue = "secret-key-dev"
    /\ storedSecret = "none"
    /\ users \in {<<>>, <<Admin>>}
    /\ pending = [r \in Slots |-> Free]
    /\ resp = NoResponse
    /\ uniqueIndex \in BOOLEAN

\* lines 18-40: validation, findOne, hash, new Users, createToken; the
\* handler is then suspended at await newUser.save()
create(r, body) ==
    /\ Takes(r)
    /\ IF ~Valid(body)
       THEN /\ resp' = Fail("create", Req("-", "-", FALSE), 400, "BadRequestError")
            /\ UNCHANGED <<users, pending>>
       ELSE IF FindIndex(users, body.email) # 0
       THEN /\ resp' = Fail("create", Req(body.email, "-", TRUE), 400, "BadRequestError")
            /\ UNCHANGED <<users, pending>>
       ELSE /\ Len(users) + Cardinality(Saving) < MaxUsers
            /\ pending' = [pending EXCEPT ![r] =
                   [pc |-> "save", newUser |-> NewUser(body, Hash(body.password))]]
            /\ UNCHANGED <<users, resp>>
    /\ ControllerFrame

\* lines 42-47: save succeeds and the token is sent, or save throws and the
\* error is passed on
createSave(r) ==
    /\ pending[r].pc = "save"
    /\ LET newUser == pending[r].newUser
       IN IF uniqueIndex /\ FindIndex(users, newUser.email) # 0
          THEN /\ resp' = Fail("create", Req(newUser.email, "-", TRUE), 500, "MongoServerError")
               /\ UNCHANGED users
          ELSE /\ users' = Append(users, newUser)
               /\ resp' = Send("create", Req(newUser.email, "-", TRUE), 201,
                               [token |-> createToken(newUser)])
    /\ pending' = [pending EXCEPT ![r] = Free]
    /\ ControllerFrame

\* lines 50-74
authenticate(body) ==
    /\ LET req == Req(body.email, body.password, Valid(body))
           i == FindIndex(users, body.email)
       IN resp' =
              IF ~Valid(body) THEN Fail("authenticate", req, 400, "BadRequestError")
              ELSE IF i = 0 THEN Fail("authenticate", req, 404, "NotFoundError")
              ELSE IF Compare(body.password, users[i].password) = TRUE
              THEN Send("authenticate", req, 200, [token |-> createToken(users[i])])
              ELSE Fail("authenticate", req, 401, "UnauthorizedError")
    /\ UNCHANGED <<users, pending>>
    /\ ControllerFrame

\* lines 76-88
getAllUsers ==
    /\ resp' = Send("getAllUsers", Req("-", "-", TRUE), 200,
                    [users |-> [i \in 1..Len(users) |-> WithoutPassword(users[i])]])
    /\ UNCHANGED <<users, pending>>
    /\ ControllerFrame

\* lines 90-104
getAUser(email) ==
    /\ LET i == FindIndex(users, email)
       IN resp' =
              IF i # 0
              THEN Send("getAUser", Req(email, "-", TRUE), 200, [user |-> WithoutPassword(users[i])])
              ELSE Fail("getAUser", Req(email, "-", TRUE), 404, "NotFoundError")
    /\ UNCHANGED <<users, pending>>
    /\ ControllerFrame

\* lines 106-128: validation, hash, updateOne; with a match the handler is
\* suspended at the findOne of line 130
updateAUser(r, email, body) ==
    /\ Takes(r)
    /\ LET i == FindIndex(users, email)
       IN IF ~Valid(body)
          THEN /\ resp' = Fail("updateAUser", Req(email, "-", FALSE), 400, "BadRequestError")
               /\ UNCHANGED <<users, pending>>
          ELSE IF i = 0
          THEN /\ resp' = Fail("updateAUser", Req(email, "-", TRUE), 404, "NotFoundError")
               /\ UNCHANGED <<users, pending>>
          ELSE /\ users' = [users EXCEPT ![i] =
                      ApplyUpdate(@, UpdateDoc(body, Hash(body.password)))]
               /\ pending' = [pending EXCEPT ![r] = [pc |-> "refetch", email |-> email]]
               /\ UNCHANGED resp
    /\ ControllerFrame

\* lines 130-136: findOne again; toObject of null throws inside the try
updateAUserRefetch(r) ==
    /\ pending[r].pc = "refetch"
    /\ LET email == pending[r].email
           i == FindIndex(users, email)
       IN resp' =
              IF i # 0
              THEN Send("updateAUser", Req(email, "-", TRUE), 200, [user |-> WithoutPassword(users[i])])
              ELSE Fail("updateAUser", Req(email, "-", TRUE), 500, "TypeError")
    /\ pending' = [pending EXCEPT ![r] = Free]
    /\ UNCHANGED users
    /\ ControllerFrame

\* lines 139-149
removeAUser(email) ==
    /\ LET i == FindIndex(users, email)
       IN IF i = 0
          THEN /\ resp' = Fail("removeAUser", Req(email, "-", TRUE), 404, "NotFoundError")
               /\ UNCHANGED users
          ELSE /\ users' = Remove(users, i)
               /\ resp' = Send("removeAUser", Req(email, "-", TRUE), 200,
                               [message |-> "successfully deleted"])
    /\ UNCHANGED pending
    /\ ControllerFrame

ControllerNext ==
    \/ \E r \in Slots : \E body \in ProfileBodies : create(r, body)
    \/ \E r \in Slots : createSave(r)
    \/ \E body \in AuthBodies : authenticate(body)
    \/ getAllUsers
    \/ \E email \in Emails : getAUser(email)
    \/ \E r \in Slots : \E email \in Emails : \E body \in ProfileBodies : updateAUser(r, email, body)
    \/ \E r \in Slots : updateAUserRefetch(r)
    \/ \E email \in Emails : removeAUser(email)

ControllerSpec == ControllerInit /\ [][ControllerNext]_vars

(***************************************************************************)
(* Vocabulary of the properties                                            *)
(***************************************************************************)

\* the order of cluster calls the specification prescribes
FixedOrder ==
    <<"namespace", "secret", "configmap", "mongodb", "wait", "backend", "frontend", "ingress">>

\* resources whose rejection the specification calls fatal
RequiredTier == {"namespace", "secret", "configmap", "mongodb"}

\* every submission whose rejection ends the script
RequiredSubmissions == RequiredTier \cup {"backend", "frontend"}

IsPrefix(s, t) ==
    /\ Len(s) <= Len(t)
    /\ \A i \in 1..Len(s) : s[i] = t[i]

Submitted(m) == \E i \in 1..Len(calls) : calls[i] = m

Accepted(m) == \E i \in 1..Len(rcs) : calls[i] = m /\ rcs[i] = 0

Rejected(m) == \E i \in 1..Len(rcs) : calls[i] = m /\ rcs[i] # 0

\* lines the script prints on a run without any failure, and its fatal message
RegularLines ==
    {Announce(s) : s \in {Script[i] : i \in 1..Len(Script)}}
        \cup {"Starting Kubernetes Deployment...",
              "Deployment complete!",
              "kubectl is not installed. Please install kubectl first."}

IsWarning(line) == line \notin RegularLines

\* the warnings a run has reported so far
Warnings == SelectSeq(out, IsWarning)

RoutingWarning == "Ingress not applied (may need ingress controller)"

WaitReturned == waitResult # "none"

AfterWait == {"backend", "frontend", "ingress", "complete", "exited"}

(***************************************************************************)
(* Properties                                                              *)
(***************************************************************************)

\* C1: in every run the cluster calls made so far are an initial segment of
\* namespace, secret, configmap, MongoDB, wait, backend, frontend, ingress:
\* nothing is submitted before everything earlier in that order.
C1_FixedOrder == IsPrefix(calls, FixedOrder)

C1_Witness == calls = FixedOrder /\ pc = "exited"

\* C2: a rejected apply of namespace, secret, configmap or MongoDB is the
\* last call of the run, and the run has ended with a non-zero status; a
\* rejected configmap means MongoDB, backend and frontend are not submitted.
C2_RequiredRejectAborts ==
    /\ \A i \in 1..Len(rcs) :
           (calls[i] \in RequiredTier /\ rcs[i] # 0)
               => /\ i = Len(calls)
                  /\ Aborted
                  /\ waitResult = "none"
    /\ Rejected("configmap")
           => ~Submitted("mongodb") /\ ~Submitted("backend") /\ ~Submitted("frontend")

C2_Witness == Rejected("configmap") /\ Aborted /\ Len(calls) = 3

\* C3: without kubectl the run goes from the precheck straight to Aborted
\* and never submits a manifest nor starts the readiness wait.
C3_NoToolingNoSubmission ==
    ~kubectlInstalled
        => /\ calls = <<>>
           /\ waitResult = "none"
           /\ applied = {}
           /\ pc \in {"idle", "precheck", "exited"}
           /\ pc = "exited" => Aborted

C3_Witness == ~kubectlInstalled /\ Aborted /\ run = 1

C6_IngressTolerated ==
    Rejected("ingress")
        => /\ pc \in {"complete", "exited"}
           /\ pc = "exited" => Complete
           /\ Warnings = <<RoutingWarning>>
           /\ calls = FixedOrder
           /\ WaitReturned
           /\ \A m \in RequiredSubmissions : Accepted(m)

C6_Witness == Rejected("ingress") /\ Complete

\* C7: a run that has ended and in which no fatal step failed (kubectl was
\* there, the directory was there, no required manifest was rejected) has
\* exit status 0, whatever the wait and the ingress apply did.
C7_TolerableExitZero ==
    (/\ pc = "exited"
     /\ kubectlInstalled
     /\ dirExists
     /\ \A m \in RequiredSubmissions : ~Rejected(m))
        => exitCode = 0

C7_Witness ==
    /\ pc = "exited"
    /\ exitCode = 0
    /\ waitResult \in {"timeout", "error"}
    /\ Rejected("ingress")

C9_Idempotent ==
    (run > 1 /\ pc = "exited" /\ prev.exitCode = 0)
        => /\ Complete
           /\ calls = prev.calls

C9_Witness == run > 1 /\ Complete /\ prev.exitCode = 0 /\ calls = FixedOrder

\* C10: a run that reached the cluster and in which every call returned
\* success made exactly the eight calls in order, ended in Complete with
\* exit status 0 and reported no warning.
C10_HappyPath ==
    (/\ pc = "exited"
     /\ calls # <<>>
     /\ \A i \in 1..Len(rcs) : rcs[i] = 0)
        => /\ calls = FixedOrder
           /\ Len(rcs) = Len(FixedOrder)
           /\ waitResult = "ready"
           /\ exitCode = 0
           /\ Warnings = <<>>
           /\ out[Len(out)] = "Deployment complete!"

C10_Witness ==
    /\ Complete
    /\ calls = FixedOrder
    /\ waitResult = "ready"
    /\ Warnings = <<>>
    /\ \A i \in 1..Len(rcs) : rcs[i] = 0

\* C11: under FairSpec every run reaches a terminal state, Complete or
\* Aborted; from a terminal state the script makes no further call, prints
\* nothing more and keeps its exit status, until the operator invokes it again.
C11_Terminates ==
    /\ (pc # "exited") ~> (Complete \/ Aborted)
    /\ [][(pc = "exited" /\ run' = run)
             => (UNCHANGED orch /\ UNCHANGED applied)]_vars

C11_Witness == Aborted /\ Rejected("frontend") /\ waitResult = "timeout"

\* C12: within one run no cluster call is made twice: each of the seven
\* manifests is submitted at most once and the wait is started at most once.
C12_NoRetry ==
    /\ \A i, j \in 1..Len(calls) : calls[i] = calls[j] => i = j
    /\ Len(calls) <= Len(FixedOrder)

C12_Witness == Aborted /\ Rejected("mongodb") /\ Len(calls) = 4

BuildLine(line) == \E i \in 1..Len(bout) : bout[i] = line

\* C13: a failed docker build is the last build of the run and ends the
\* script with a non-zero status before the build-complete message: after a
\* failed backend build the frontend build is never attempted.
C13_BuildFailureFatal ==
    \A i \in 1..Len(brcs) :
        brcs[i] # 0
            => /\ i = Len(builds)
               /\ bpc = "exited"
               /\ bexit # 0
               /\ bexit # Running
               /\ ~BuildLine("Build complete!")
               /\ builds[i] = "backend" => builds = <<"backend">>

C13_Witness ==
    /\ bpc = "exited"
    /\ builds = <<"backend">>
    /\ brcs = <<1>>
    /\ daemonRunning

\* C14: build-docker.sh runs at most the two docker builds, adds nothing to
\* the local store but the two project tags and removes nothing from it,
\* pushes nothing to a registry, loads nothing into the cluster and leaves
\* the deployment script and the cluster untouched, whether or not a build
\* fails.
C14_BuildFrame ==
    /\ [](/\ Len(builds) <= 2
          /\ \A i \in 1..Len(builds) : builds[i] \in BuildUnits)
    /\ [][/\ registry' = registry
          /\ clusterImages' = clusterImages
          /\ UNCHANGED <<orch, cluster>>
          /\ images \subseteq images'
          /\ (images' \ images) \subseteq {Tag(u) : u \in BuildUnits}]_vars

C14_Witness ==
    /\ bpc = "exited"
    /\ bexit = 1
    /\ builds = <<"backend", "frontend">>
    /\ Tag("backend") \in images
    /\ registry = {}
    /\ applied = {}

Checked(check) == \E i \in 1..Len(vout) : vout[i].check = check

\* the checks that print a line whatever they find
UnconditionalChecks ==
    {"docker", "compose", "daemon", "containers", "volumes", "networks", "kubectl",
     "cluster", "minikube", "kind", "Docker", "Kubernetes", "docker-compose.yml",
     "backend/Dockerfile", "frontend/Dockerfile", "kubernetes/"}

\* C15: no step of check-docker-k8s.sh changes the docker host or the
\* cluster: images, containers, volumes, networks, the daemon, the applied
\* resources and the pods are after each step what they were before it.
C15_VerifyReadOnly ==
    [][UNCHANGED <<images, dockerObjects, dockerInstalled, daemonRunning, registry,
                   clusterImages, applied, mongoPod, storedSecret, clusterReachable>>]_vars

C15_Witness ==
    /\ vpc = "exited"
    /\ vexit = 0
    /\ ClusterUp
    /\ DockerUp
    /\ "namespace" \notin applied
    /\ images = {}

\* C16: a run of check-docker-k8s.sh on a host without the docker command
\* or without a running docker daemon ends with a non-zero exit status.
C16_DockerRequired ==
    (vpc = "exited" /\ (~dockerInstalled \/ ~daemonRunning)) => vexit # 0

C18_SecretNotLogged ==
    /\ \A i \in 1..Len(out) : out[i] \notin SecretValues
    /\ storedSecret \in {"none", secretValue}

C18_Witness ==
    /\ Complete
    /\ Accepted("secret")
    /\ storedSecret = "your-production-secret"

\* m was accepted by the cluster before n was submitted, in this run
AcceptedBefore(m, n) ==
    \E i \in 1..Len(rcs) : \E j \in 1..Len(calls) :
        i < j /\ calls[i] = m /\ rcs[i] = 0 /\ calls[j] = n

\* C19: when backend or frontend is submitted, namespace, secret, configmap
\* and MongoDB have been accepted earlier in the same run; when the ingress
\* is submitted, backend and frontend have been accepted earlier in the run.
C19_DependenciesSatisfied ==
    /\ \A n \in {"backend", "frontend"} :
           Submitted(n) => \A m \in RequiredTier : AcceptedBefore(m, n)
    /\ Submitted("ingress")
           => AcceptedBefore("backend", "ingress") /\ AcceptedBefore("frontend", "ingress")

C19_Witness == Submitted("ingress") /\ waitResult = "error" /\ pc = "complete"

\* C20: at most one cluster call is in flight, and a call starts only when
\* every earlier call of the run has returned.
C20_NoParallelCalls ==
    /\ [](/\ Len(rcs) <= Len(calls)
          /\ Len(calls) <= Len(rcs) + 1
          /\ Len(calls) > Len(rcs) => pc = "waiting" /\ calls[Len(calls)] = "wait")
    /\ [][Len(calls') > Len(calls) => Len(rcs) = Len(calls)]_vars

C20_Witness == pc = "waiting" /\ Len(calls) = Len(rcs) + 1 /\ elapsed = 60

\* the line of the output that reports the end of a successful run
CompletionPrinted == \E i \in 1..Len(out) : out[i] = "Deployment complete!"

\* the steps that follow step s in the script
LaterSteps(s) == {Script[j] : j \in (IndexOf(s) + 1)..Len(Script)}

\* C21: when a required submission is rejected the run is Aborted, the last
\* line of the output is the announcement of the rejected step, no later
\* step is announced and the completion message is not printed.
C21_OffendingStepAnnounced ==
    \A i \in 1..Len(rcs) :
        (calls[i] \in RequiredSubmissions /\ rcs[i] # 0)
            => /\ Aborted
               /\ out[Len(out)] = Announce(calls[i])
               /\ \A j \in 1..Len(out) : \A s \in LaterSteps(calls[i]) : out[j] # Announce(s)
               /\ ~CompletionPrinted

C21_Witness ==
    /\ Aborted
    /\ Rejected("backend")
    /\ out[Len(out)] = "Deploying backend..."
    /\ waitResult = "timeout"

\* C22: after a rejected backend apply neither frontend nor ingress is
\* submitted, after a rejected frontend apply the ingress is not submitted;
\* in both cases the run has ended with a non-zero status and without the
\* completion message.
C22_StatelessRejectAborts ==
    /\ Rejected("backend") => ~Submitted("frontend") /\ ~Submitted("ingress")
    /\ Rejected("frontend") => ~Submitted("ingress")
    /\ (Rejected("backend") \/ Rejected("frontend"))
           => /\ Aborted
              /\ ~CompletionPrinted

C22_Witness ==
    /\ Rejected("frontend")
    /\ Accepted("backend")
    /\ Aborted
    /\ Len(calls) = 7
    /\ waitResult = "ready"

\* the part of a sequence of calls or statuses that follows the wait
PostWait(seq) == SubSeq(seq, IndexOf("wait") + 1, Len(seq))

\* the submissions that follow the wait
StatelessSteps == <<"backend", "frontend", "ingress">>

\* a backend or frontend apply among the statuses r was rejected
StatelessRejected(r) == \E i \in 1..Len(r) : i <= 2 /\ r[i] # 0

\* calls, exit status and output of a run whose wait has returned, written
\* as functions of the statuses r of the applies after the wait and of
\* whether the script has ended; the wait's own result is no argument
ExpectedCalls(r) ==
    SubSeq(FixedOrder, 1, 5) \o SubSeq(StatelessSteps, 1, Len(r))

ExpectedExit(r, ended) ==
    IF StatelessRejected(r) THEN 1 ELSE IF ended THEN 0 ELSE Running

ExpectedOut(r, ended) ==
    <<"Starting Kubernetes Deployment...">>
        \o [i \in 1..(5 + Len(r)) |-> Announce(FixedOrder[i])]
        \o (IF Len(r) = 3 /\ r[3] # 0 THEN <<RoutingWarning>> ELSE <<>>)
        \o (IF ended /\ ~StatelessRejected(r) THEN <<"Deployment complete!">> ELSE <<>>)

C24_CompleteIffAccepted ==
    /\ CompletionPrinted <=> exitCode = 0
    /\ exitCode = 0 => pc = "exited"
    /\ pc = "exited"
           => (exitCode = 0
                  <=> (kubectlInstalled /\ \A m \in RequiredSubmissions : Accepted(m)))

C24_Witness ==
    /\ pc = "exited"
    /\ exitCode = 0
    /\ CompletionPrinted
    /\ Rejected("ingress")
    /\ waitResult = "error"
    /\ run = 1

\* both docker builds of the run returned 0
BothBuilt == brcs = <<0, 0>>

\* C25: after two successful builds no later step ends build-docker.sh with
\* a non-zero status: the listing finds the two tags just built, so grep
\* matches, and the run ends with the build-complete message and status 0.
C25_BuildsSucceedExitZero ==
    /\ BothBuilt
           => /\ bpc \in {"complete", "list", "hints", "exited"}
              /\ bexit \in {Running, 0}
              /\ {Tag(u) : u \in BuildUnits} \subseteq images
    /\ (BothBuilt /\ bpc = "exited")
           => /\ bexit = 0
              /\ BuildLine("Build complete!")
              /\ BuildLine(Tag("backend")) /\ BuildLine(Tag("frontend"))

C25_Witness ==
    /\ BothBuilt
    /\ bpc = "exited"
    /\ bexit = 0
    /\ "mongo:latest" \notin images
    /\ brun = 1

\* C26: without the docker command check-docker-k8s.sh prints the result of
\* the docker check and nothing else, and ends with status 1: no later
\* check is reached, neither the summary nor the last line is printed.
C26_NoDockerExitsAtOnce ==
    ~dockerInstalled
        => /\ vpc \in {"idle", "docker", "exited"}
           /\ IsPrefix(vout, <<Line("docker", "fail")>>)
           /\ vpc = "exited" => vexit = 1 /\ vout = <<Line("docker", "fail")>>
           /\ vpc # "exited" => vexit = Running

C26_Witness ==
    /\ ~dockerInstalled
    /\ vpc = "exited"
    /\ vexit = 1
    /\ kubectlInstalled
    /\ clusterReachable

\* the e-mail addresses of the stored users are pairwise different
EmailsUnique == \A i, j \in 1..Len(users) : users[i].email = users[j].email => i = j

\* this step resumes a suspended create and answers 201
CreateAnswers201 ==
    /\ \E r \in Slots : pending[r].pc = "save" /\ pending'[r] = Free
    /\ resp'.op = "create"
    /\ resp'.status = 201

\* C27: the collection holds at most one user per e-mail address, and a
\* create answers 201 only when no stored user has its e-mail address, so
\* that of several creates for one address at most one answers 201.
C27_EmailsStayUnique ==
    /\ []EmailsUnique
    /\ [][CreateAnswers201 => FindIndex(users, resp'.req.email) = 0]_vars

\* passwords and their digests
PasswordValues == Passwords \cup {Hash(p) : p \in Passwords}

\* a user object of a response: no password field, no password in a field
Clean(userObj) ==
    /\ "password" \notin DOMAIN userObj
    /\ \A f \in DOMAIN userObj \cap {"firstName", "lastName", "email"} :
           userObj[f] \notin PasswordValues

\* C28: the user objects answered by getAllUsers, getAUser and updateAUser
\* have no password field, and a successful create or authenticate answers
\* with a token and nothing else.
C28_NoPasswordInResponse ==
    /\ (resp.op = "getAllUsers" /\ resp.status = 200)
           => /\ DOMAIN resp.body = {"users"}
              /\ \A i \in 1..Len(resp.body.users) : Clean(resp.body.users[i])
    /\ (resp.op \in {"getAUser", "updateAUser"} /\ resp.status = 200)
           => /\ DOMAIN resp.body = {"user"}
              /\ Clean(resp.body.user)
    /\ (resp.op \in {"create", "authenticate"} /\ resp.status \in {200, 201})
           => /\ DOMAIN resp.body = {"token"}
              /\ resp.body.token \notin PasswordValues

C28_Witness ==
    /\ resp.op = "getAllUsers"
    /\ Len(resp.body.users) = 2
    /\ Len(users) = 2
    /\ users[2].password = Hash("pw2")

\* this step is an authenticate that answers
AuthenticateAnswers == resp' # resp /\ resp'.op = "authenticate"

\* C29: authenticate answers 200 with a token exactly when the body is
\* valid, findOne returns a user for the e-mail and the digest stored for
\* that user is the digest of the given password; a valid body for an
\* unknown e-mail gets NotFoundError, a wrong password UnauthorizedError, an
\* invalid body BadRequestError, and the collection is left as it was.
C29_AuthenticateExact ==
    [][AuthenticateAnswers
           => LET q == resp'.req
                  i == FindIndex(users, q.email)
                  known == q.valid /\ i # 0
                  match == known /\ users[i].password = Hash(q.password)
              IN /\ resp'.status = 200 <=> match
                 /\ match => DOMAIN resp'.body = {"token"}
                 /\ (q.valid /\ i = 0) => resp'.body = [error |-> "NotFoundError"]
                 /\ (known /\ ~match) => resp'.body = [error |-> "UnauthorizedError"]
                 /\ ~q.valid => resp'.body = [error |-> "BadRequestError"]
                 /\ users' = users
                 /\ pending' = pending]_vars

C29_Witness ==
    /\ resp.op = "authenticate"
    /\ resp.status = 401
    /\ resp.req.password = "pw1"
    /\ FindIndex(users, resp.req.email) # 0
    /\ users[FindIndex(users, resp.req.email)].password = Hash("pw2")

\* the positions of the administrators
Admins(store) == {i \in 1..Len(store) : store[i].isAdmin}

\* the positions at which two collections of the same length differ
Changed(old, new) == {i \in 1..Len(old) : old[i] # new[i]}

\* this step is the first one of an update or a delete, it answers, and the
\* e-mail of its path matches no user
AnswersUnmatched ==
    /\ resp' # resp
    /\ resp'.op \in {"updateAUser", "removeAUser"}
    /\ pending' = pending
    /\ FindIndex(users, resp'.req.email) = 0

\* what create, update and delete do to the collection: a new user is
\* appended and is no administrator; a change in place touches one user,
\* the first one with the e-mail of an update suspended by this step, and
\* leaves the user's e-mail and isAdmin as they were; a user is removed
\* without any other change; nobody becomes an administrator.
StoreFrame ==
    /\ Len(users') > Len(users)
           => /\ users' = Append(users, users'[Len(users')])
              /\ ~users'[Len(users')].isAdmin
    /\ (Len(users') = Len(users) /\ users' # users)
           => \E r \in Slots :
                  /\ pending[r] = Free
                  /\ pending'[r].pc = "refetch"
                  /\ Changed(users, users') = {FindIndex(users, pending'[r].email)}
                  /\ \A i \in Changed(users, users') :
                         /\ users'[i].email = users[i].email
                         /\ users'[i].isAdmin = users[i].isAdmin
    /\ Len(users') < Len(users)
           => \E i \in 1..Len(users) : users' = Remove(users, i)
    /\ Cardinality(Admins(users')) <= Cardinality(Admins(users))

====
